---- MODULE Spec2Model ----
(***************************************************************************)
(* Faborite CLI plugin system and interactive REPL                         *)
(* (src/src/Faborite.SDKs/Python/cli_plugins.py).                          *)
(*                                                                         *)
(* PluginManager: an insertion-ordered registry name -> handler, filled by *)
(* register_command (called directly or by a plugin unit's register entry  *)
(* point during load_plugins), read by execute_command and list_plugins.   *)
(* FaboriteREPL: the prompt loop of run() over the built-in dispatcher     *)
(* execute(), with its history.                                            *)
(*                                                                         *)
(* Text is modelled structurally: a formatted message is the sequence of   *)
(* its literal and interpolated parts; an input line is the sequence of    *)
(* its whitespace characters (" ") and maximal non-whitespace words.       *)
(***************************************************************************)
EXTENDS Integers, Sequences, FiniteSets, TLC

\* ------------------------------------------------------------------ bounds
MaxCalls == 3   \* register_command calls made on one manager
MaxUnits == 2   \* plugin units found by one directory scan
MaxReads == 3   \* prompts answered in one REPL session
MaxJointCalls == 1   \* register_command calls made beside a session
MaxJointReads == 2   \* prompts answered in a session beside a manager

\* ------------------------------------------------------- manager: inputs
Names == {"a", "b"}
Handlers == {"h1", "h2"}

\* Positional and keyword arguments a caller passes to execute_command.  A
\* keyword dict is the sequence of its <<key, value>> items.
ArgsSet == {<<>>, <<"x">>}
KwargsSet == {<<>>, << <<"k", "v">> >>, << <<"name", "v">> >>}

Keys(kwargs) == {kwargs[i][1] : i \in DOMAIN kwargs}

\* Outcome of a call: nothing yet, a returned value, or a raised exception.
NoOutcome == [kind |-> "none", type |-> "", msg |-> <<>>]
Return(type, v) == [kind |-> "return", type |-> type, msg |-> v]
Raise(type, m) == [kind |-> "raise", type |-> type, msg |-> m]

\* What a registered handler may do when it is called.
HandlerOutcomes ==
    {Return("value", <<"v">>), Raise("RuntimeError", <<"boom">>),
     Raise("SystemExit", <<"1">>)}

\* Python's exception hierarchy: `except Exception` catches every exception
\* class except those deriving from BaseException only.
BaseOnly == {"SystemExit", "KeyboardInterrupt", "GeneratorExit"}
IsException(type) == type \notin BaseOnly

\* ----------------------------------------------------- manager: registry
\* self.plugins is a dict: insertion ordered, one entry per key.
HasName(p, name) == \E i \in DOMAIN p : p[i].name = name
IndexOf(p, name) == CHOOSE i \in DOMAIN p : p[i].name = name
Lookup(p, name) == p[IndexOf(p, name)].handler

\* Mutant of DictSet: a new key is put in front of the others.
DictSet_prepend(p, name, handler) ==
    IF HasName(p, name)
    THEN [p EXCEPT ![IndexOf(p, name)].handler = handler]
    ELSE <<[name |-> name, handler |-> handler]>> \o p

\* Mutant of DictSet: an existing key keeps its value (dict.setdefault).
DictSet_setdefault(p, name, handler) ==
    IF HasName(p, name) THEN p
    ELSE Append(p, [name |-> name, handler |-> handler])

\* Mutant of DictSet: an existing key is deleted and inserted anew, which
\* moves it to the end of the dict.
DictSet_move_to_end(p, name, handler) ==
    Append(SelectSeq(p, LAMBDA e : e.name # name),
           [name |-> name, handler |-> handler])

\* self.plugins[name] = handler
DictSet(p, name, handler) ==
    IF HasName(p, name)
    THEN [p EXCEPT ![IndexOf(p, name)].handler = handler]
    ELSE Append(p, [name |-> name, handler |-> handler])

\* PluginManager.register_command: the new registry and the notice printed.
register_command(p, name, handler) ==
    [plugins |-> DictSet(p, name, handler),
     stdout |-> << <<"Registered command: ", name>> >>]

\* PluginManager.list_plugins
list_plugins(p) == [i \in DOMAIN p |-> p[i].name]

\* Parameters of execute_command(self, name, *args, **kwargs) that a keyword
\* argument of the same name collides with when the call is bound.
ParamNames == {"self", "name"}

\* Mutant of execute_command: an unknown name is looked up with dict.get and
\* the call returns None.
execute_command_get(p, name, args, kwargs, ho) ==
    IF Keys(kwargs) \cap {"self", "name"} # {}
    THEN [invoked |-> <<>>,
          outcome |-> Raise("TypeError", <<"got multiple values for argument">>)]
    ELSE IF HasName(p, name)
    THEN [invoked |-> << [handler |-> Lookup(p, name), args |-> args,
                          kwargs |-> kwargs, does |-> ho] >>,
          outcome |-> ho]
    ELSE [invoked |-> <<>>, outcome |-> Return("None", <<>>)]

\* PluginManager.execute_command; ho is what the handler does if called.  An
\* invocation records the handler, the arguments it received and what it did.
execute_command(p, name, args, kwargs, ho) ==
    IF Keys(kwargs) \cap ParamNames # {}
    THEN [invoked |-> <<>>,
          outcome |-> Raise("TypeError", <<"got multiple values for argument">>)]
    ELSE IF HasName(p, name)
    THEN [invoked |-> << [handler |-> Lookup(p, name), args |-> args,
                          kwargs |-> kwargs, does |-> ho] >>,
          outcome |-> ho]
    ELSE [invoked |-> <<>>,
          outcome |-> Raise("ValueError", <<"Unknown command: ", name>>)]

\* ----------------------------------------------------- manager: plugins
\* The plugin units (files *.py of the plugin directory) a scan may find, by
\* stem.  loadExc: the exception exec_module raises, "none" when the module
\* loads: SyntaxError for a source that does not compile, and whatever the
\* top-level code raises (here SystemExit, as from sys.exit()).
\* hasRegister: the module has an attribute `register`.  regCalls: the
\* register_command calls register(manager) makes, in order.  regExc: the
\* exception register raises after those calls.
Stems == {"good", "dup", "bad", "regfail", "noreg", "quit"}

UnitOf(loadExc, hasRegister, regCalls, regExc) ==
    [loadExc |-> loadExc, hasRegister |-> hasRegister, regCalls |-> regCalls,
     regExc |-> regExc]

Cmd(name, handler) == [name |-> name, handler |-> handler]

Unit(stem) ==
    CASE stem = "good" -> UnitOf("none", TRUE, <<Cmd("a", "h1")>>, "none")
      [] stem = "dup" ->
            UnitOf("none", TRUE, <<Cmd("b", "h2"), Cmd("a", "h2")>>, "none")
      [] stem = "bad" -> UnitOf("SyntaxError", FALSE, <<>>, "none")
      [] stem = "regfail" ->
            UnitOf("none", TRUE, <<Cmd("b", "h1")>>, "RuntimeError")
      [] stem = "noreg" -> UnitOf("none", FALSE, <<>>, "none")
      [] stem = "quit" -> UnitOf("SystemExit", FALSE, <<>>, "none")

\* Orders in which Path.glob may yield the units of a directory: every
\* sequence of distinct stems.
RECURSIVE SeqsNoRep(_, _)
SeqsNoRep(S, n) ==
    IF n = 0 THEN {<<>>}
    ELSE LET shorter == SeqsNoRep(S, n - 1)
         IN shorter \cup
            {Append(q, x) : q \in {r \in shorter : Len(r) = n - 1}, x \in S}
DiscoveryOrders ==
    {q \in SeqsNoRep(Stems, MaxUnits) :
        \A i, j \in DOMAIN q : i # j => q[i] # q[j]}

\* The state load_plugins threads through its loop.  exc: the exception
\* that left the loop, "none" while none has. attempted: the units whose
\* module was executed; entered: the units whose register was called.
LoadStart(p, cs) ==
    [plugins |-> p, calls |-> cs, stdout |-> <<>>, stderr |-> <<>>,
     attempted |-> <<>>, entered |-> <<>>, exc |-> "none"]

\* module.register(self): each call of manager.register_command in turn.
RECURSIVE run_register(_, _)
run_register(cmds, st) ==
    IF cmds = <<>> THEN st
    ELSE LET r == register_command(st.plugins, Head(cmds).name,
                                   Head(cmds).handler)
         IN run_register(Tail(cmds),
                [st EXCEPT !.plugins = r.plugins,
                           !.calls = Append(@, Head(cmds)),
                           !.stdout = @ \o r.stdout])

\* Mutant of load_except: the failure is swallowed without a report.
load_except_silent(stem, exc, st) ==
    IF IsException(exc) THEN st ELSE [st EXCEPT !.exc = exc]

\* except Exception as e: print(f"Failed to load plugin {stem}: {e}",
\* file=sys.stderr); any other exception leaves load_plugins.
load_except(stem, exc, st) ==
    IF IsException(exc)
    THEN [st EXCEPT !.stderr =
            Append(@, <<"Failed to load plugin ", stem, ": ", exc>>)]
    ELSE [st EXCEPT !.exc = exc]

\* Mutant of load_unit: module.register is called without the hasattr test,
\* so a unit without register fails with AttributeError.
load_unit_register_required(stem, st) ==
    LET u == Unit(stem)
        st1 == [st EXCEPT !.attempted = Append(@, stem)]
    IN IF u.loadExc # "none" THEN load_except(stem, u.loadExc, st1)
       ELSE IF ~u.hasRegister THEN load_except(stem, "AttributeError", st1)
       ELSE LET st2 == run_register(u.regCalls,
                          [st1 EXCEPT !.entered = Append(@, stem)])
            IN IF u.regExc # "none" THEN load_except(stem, u.regExc, st2)
               ELSE [st2 EXCEPT !.stdout =
                                  Append(@, <<"Loaded plugin: ", stem>>)]

\* Mutant of load_unit: when register raises, the registry is put back as
\* it was before register was called.
load_unit_rollback(stem, st) ==
    LET u == Unit(stem)
        st1 == [st EXCEPT !.attempted = Append(@, stem)]
    IN IF u.loadExc # "none" THEN load_except(stem, u.loadExc, st1)
       ELSE IF ~u.hasRegister THEN st1
       ELSE LET st2 == run_register(u.regCalls,
                          [st1 EXCEPT !.entered = Append(@, stem)])
            IN IF u.regExc # "none"
               THEN load_except(stem, u.regExc,
                                [st2 EXCEPT !.plugins = st1.plugins])
               ELSE [st2 EXCEPT !.stdout =
                                  Append(@, <<"Loaded plugin: ", stem>>)]

\* One iteration of the for loop of load_plugins.  spec_from_file_location
\* gives a spec with a loader for every *.py path, so the body of
\* `if spec and spec.loader` always runs.
load_unit(stem, st) ==
    LET u == Unit(stem)
        st1 == [st EXCEPT !.attempted = Append(@, stem)]
    IN IF u.loadExc # "none" THEN load_except(stem, u.loadExc, st1)
       ELSE IF ~u.hasRegister THEN st1
       ELSE LET st2 == run_register(u.regCalls,
                          [st1 EXCEPT !.entered = Append(@, stem)])
            IN IF u.regExc # "none" THEN load_except(stem, u.regExc, st2)
               ELSE [st2 EXCEPT !.stdout =
                                  Append(@, <<"Loaded plugin: ", stem>>)]

\* Mutant of load_plugins: the try statement encloses the whole loop, so the
\* scan ends at the first unit that fails.
RECURSIVE load_plugins_try_outside(_, _)
load_plugins_try_outside(order, st) ==
    IF order = <<>> \/ st.exc # "none" \/ st.stderr # <<>> THEN st
    ELSE load_plugins_try_outside(Tail(order), load_unit(Head(order), st))

\* Mutant of load_plugins: the loop body runs twice for every path.
RECURSIVE load_plugins_twice(_, _)
load_plugins_twice(order, st) ==
    IF order = <<>> \/ st.exc # "none" THEN st
    ELSE load_plugins_twice(Tail(order),
             load_unit(Head(order), load_unit(Head(order), st)))

\* PluginManager.load_plugins over the units in discovery order.
RECURSIVE load_plugins(_, _)
load_plugins(order, st) ==
    IF order = <<>> \/ st.exc # "none" THEN st
    ELSE load_plugins(Tail(order), load_unit(Head(order), st))

\* ------------------------------------------------------- manager: state
VARIABLES
    plugins,    \* PluginManager.plugins, as the sequence of its items
    calls,      \* every register_command call made so far, in order
    lastOp,     \* the manager operation that produced this state
    invoked,    \* the handler invocations the last operation made
    outcome,    \* what the last operation returned or raised
    stdout,     \* lines the last operation printed to sys.stdout
    stderr,     \* lines the last operation printed to sys.stderr
    attempted,  \* units the last load_plugins executed, in order
    entered     \* units whose register the last load_plugins called

mvars == <<plugins, calls, lastOp, invoked, outcome, stdout, stderr,
           attempted, entered>>

\* ----------------------------------------------------------- REPL: state
VARIABLES
    replState,  \* "Idle" before run(), "Running" in its loop, "Stopped" after
    history,    \* FaboriteREPL.history
    prompts,    \* prompts issued by input("faborite> ") so far
    lastInput,  \* how the latest prompt was answered
    execArg,    \* the line the latest step passed to execute(), <<>> if none
    result,     \* what that execute() call returned, <<>> if none
    replOut,    \* lines the latest step printed to sys.stdout
    replErr,    \* lines the latest step printed to sys.stderr
    readLog     \* the lines input() has returned so far, stripped, in order

rvars == <<replState, history, prompts, lastInput, execArg, result, replOut,
           replErr, readLog>>

vars == <<mvars, rvars>>

Op(op, name, handler, args, kwargs, order) ==
    [op |-> op, name |-> name, handler |-> handler, args |-> args,
     kwargs |-> kwargs, order |-> order]
NoOp == Op("none", "", "", <<>>, <<>>, <<>>)

\* PluginManager.__init__
InitManager ==
    /\ plugins = <<>>
    /\ calls = <<>>
    /\ lastOp = NoOp
    /\ invoked = <<>>
    /\ outcome = NoOutcome
    /\ stdout = <<>>
    /\ stderr = <<>>
    /\ attempted = <<>>
    /\ entered = <<>>

\* manager.register_command(name, handler), called directly.
RegisterCommand ==
    \E name \in Names, handler \in Handlers :
        LET r == register_command(plugins, name, handler)
        IN /\ Len(calls) < MaxCalls
           /\ plugins' = r.plugins
           /\ calls' = Append(calls, Cmd(name, handler))
           /\ lastOp' = Op("register", name, handler, <<>>, <<>>, <<>>)
           /\ invoked' = <<>>
           /\ outcome' = Return("None", <<>>)
           /\ stdout' = r.stdout
           /\ stderr' = <<>>
           /\ attempted' = <<>>
           /\ entered' = <<>>
           /\ UNCHANGED rvars

\* manager.execute_command(name, *args, **kwargs)
ExecuteCommand ==
    \E name \in Names, args \in ArgsSet, kwargs \in KwargsSet,
       ho \in HandlerOutcomes :
        LET r == execute_command(plugins, name, args, kwargs, ho)
        IN /\ lastOp' = Op("execute", name, "", args, kwargs, <<>>)
           /\ invoked' = r.invoked
           /\ outcome' = r.outcome
           /\ stdout' = <<>>
           /\ stderr' = <<>>
           /\ attempted' = <<>>
           /\ entered' = <<>>
           /\ UNCHANGED <<plugins, calls>>
           /\ UNCHANGED rvars

\* manager.list_plugins()
ListPlugins ==
    /\ lastOp' = Op("list", "", "", <<>>, <<>>, <<>>)
    /\ invoked' = <<>>
    /\ outcome' = Return("list", list_plugins(plugins))
    /\ stdout' = <<>>
    /\ stderr' = <<>>
    /\ attempted' = <<>>
    /\ entered' = <<>>
    /\ UNCHANGED <<plugins, calls>>
    /\ UNCHANGED rvars

\* manager.load_plugins() with the directory scan yielding `order`.
LoadPlugins ==
    \E order \in DiscoveryOrders :
        LET st == load_plugins(order, LoadStart(plugins, calls))
        IN /\ Len(st.calls) <= MaxCalls
           /\ plugins' = st.plugins
           /\ calls' = st.calls
           /\ lastOp' = Op("load", "", "", <<>>, <<>>, order)
           /\ invoked' = <<>>
           /\ outcome' = IF st.exc = "none" THEN Return("None", <<>>)
                         ELSE Raise(st.exc, <<>>)
           /\ stdout' = st.stdout
           /\ stderr' = st.stderr
           /\ attempted' = st.attempted
           /\ entered' = st.entered
           /\ UNCHANGED rvars

NextManager ==
    \/ RegisterCommand
    \/ ExecuteCommand
    \/ ListPlugins
    \/ LoadPlugins

\* ------------------------------------------------------------ REPL: text
\* Raw input lines the terminal may deliver (without the newline).
Lines ==
    {<<>>, <<" ">>, <<"exit">>, <<" ", "exit", " ">>, <<"exit", " ", "now">>,
     <<"help">>, <<"history">>, <<"sync", " ", "ws1">>, <<"list">>,
     <<" ", "profile", " ", " ", "t">>, <<"frob", " ", "x", " ", "y">>,
     <<"help", " ", "me">>, <<"history", " ", "2">>, <<"a">>}

\* Lines given to execute() directly.
ExecLines ==
    Lines \cup
    {<<"sync">>, <<"sync", " ", "ws1", " ", "x">>, <<"list", " ", "b">>,
     <<"list", " ", "b", " ", "c">>, <<"profile">>,
     <<"profile", " ", "t", " ", "u">>, <<"Sync", " ", "ws1">>}

IsSpace(c) == c = " "

\* str.strip(): without leading and trailing whitespace.
RECURSIVE lstrip(_)
lstrip(line) ==
    IF line # <<>> /\ IsSpace(Head(line)) THEN lstrip(Tail(line)) ELSE line
RECURSIVE rstrip(_)
rstrip(line) ==
    IF line # <<>> /\ IsSpace(line[Len(line)])
    THEN rstrip(SubSeq(line, 1, Len(line) - 1))
    ELSE line
strip(line) == rstrip(lstrip(line))

\* str.split(): the maximal runs of non-whitespace, in order.
RECURSIVE split(_)
split(line) ==
    IF line = <<>> THEN <<>>
    ELSE IF IsSpace(Head(line)) THEN split(Tail(line))
    ELSE <<Head(line)>> \o split(Tail(line))

\* A printed line: `num` is the number formatted in front of it (0: none).
Text(parts) == [num |-> 0, text |-> parts]
Numbered(i, parts) == [num |-> i, text |-> parts]

\* Mutant of execute: the argument shown is the last token, not the second.
execute_last_arg(line) ==
    LET parts == split(line)
        command == IF parts # <<>> THEN parts[1] ELSE ""
        args == IF Len(parts) > 1 THEN Tail(parts) ELSE <<>>
    IN IF command = "sync"
       THEN <<"Triggering sync for workspace: ",
              IF args # <<>> THEN args[Len(args)] ELSE "default">>
       ELSE IF command = "list"
       THEN <<"Listing tables in workspace: ",
              IF args # <<>> THEN args[Len(args)] ELSE "default">>
       ELSE IF command = "profile"
       THEN <<"Profiling table: ",
              IF args # <<>> THEN args[Len(args)] ELSE "unknown">>
       ELSE <<"Unknown command: ", command>>

\* Mutant of execute: a command that is none of the built-in ones is looked
\* up in the plugin registry.
execute_plugins(line) ==
    LET parts == split(line)
        command == IF parts # <<>> THEN parts[1] ELSE ""
        args == IF Len(parts) > 1 THEN Tail(parts) ELSE <<>>
    IN IF command = "sync"
       THEN <<"Triggering sync for workspace: ",
              IF args # <<>> THEN args[1] ELSE "default">>
       ELSE IF command = "list"
       THEN <<"Listing tables in workspace: ",
              IF args # <<>> THEN args[1] ELSE "default">>
       ELSE IF command = "profile"
       THEN <<"Profiling table: ", IF args # <<>> THEN args[1] ELSE "unknown">>
       ELSE IF HasName(plugins, command)
       THEN <<"Plugin result: ", Lookup(plugins, command)>>
       ELSE <<"Unknown command: ", command>>

\* FaboriteREPL.execute
execute(line) ==
    LET parts == split(line)
        command == IF parts # <<>> THEN parts[1] ELSE ""
        args == IF Len(parts) > 1 THEN Tail(parts) ELSE <<>>
    IN IF command = "sync"
       THEN <<"Triggering sync for workspace: ",
              IF args # <<>> THEN args[1] ELSE "default">>
       ELSE IF command = "list"
       THEN <<"Listing tables in workspace: ",
              IF args # <<>> THEN args[1] ELSE "default">>
       ELSE IF command = "profile"
       THEN <<"Profiling table: ", IF args # <<>> THEN args[1] ELSE "unknown">>
       ELSE <<"Unknown command: ", command>>

\* FaboriteREPL.show_help
show_help ==
    <<Text(<<"Available commands:">>),
      Text(<<"  sync <workspace> <lakehouse>  - Trigger a sync operation">>),
      Text(<<"  list <workspace> <lakehouse>  - List tables">>),
      Text(<<"  profile <table>               - Profile a table">>),
      Text(<<"  history                       - Show command history">>),
      Text(<<"  help                          - Show this help">>),
      Text(<<"  exit                          - Exit REPL">>)>>

\* Mutant of show_history: enumerate(self.history), counting from 0.
show_history_from_zero(h) == [i \in DOMAIN h |-> Numbered(i - 1, h[i])]

\* FaboriteREPL.show_history: enumerate(self.history, 1)
show_history(h) == [i \in DOMAIN h |-> Numbered(i, h[i])]

\* How a prompt is answered.  n: which prompt; kind: a line, end-of-input
\* (EOFError) or an interrupt (KeyboardInterrupt) raised by input(); io: how
\* the prints of the loop body went after a line was read ("ok", "error": a
\* print raised an Exception such as OSError, "interrupt": KeyboardInterrupt
\* arrived during the body).
Input(n, kind, raw, io) == [n |-> n, kind |-> kind, raw |-> raw, io |-> io]
IoOutcomes == {"ok", "error", "interrupt"}

\* FaboriteREPL.__init__
InitREPL ==
    /\ replState = "Idle"
    /\ history = <<>>
    /\ prompts = 0
    /\ lastInput = Input(0, "none", <<>>, "ok")
    /\ execArg = <<>>
    /\ result = <<>>
    /\ replOut = <<>>
    /\ replErr = <<>>
    /\ readLog = <<>>

\* repl.execute(line) called directly; it reads and writes no field.
Execute ==
    \E line \in ExecLines :
        /\ replState = "Idle"
        /\ execArg' = line
        /\ result' = execute(line)
        /\ UNCHANGED <<replState, history, prompts, lastInput, replOut,
                       replErr, readLog>>
        /\ UNCHANGED mvars

\* run() up to its first prompt: the banner, then input("faborite> ").
Run ==
    /\ replState = "Idle"
    /\ replState' = "Running"
    /\ prompts' = 1
    /\ replOut' = <<Text(<<"Faborite Interactive REPL">>),
                    Text(<<"Type 'help' for commands, 'exit' to quit">>),
                    Text(<<>>)>>
    /\ replErr' = <<>>
    /\ UNCHANGED <<history, lastInput, execArg, result, readLog>>
    /\ UNCHANGED mvars

\* The handlers of the try statement in run().
\* except KeyboardInterrupt: print("\nUse 'exit' to quit")
on_interrupt == [out |-> <<Text(<<"\nUse 'exit' to quit">>)>>, err |-> <<>>]
\* except Exception as e: print(f"Error: {e}", file=sys.stderr)
on_exception(e) == [out |-> <<>>, err |-> <<Text(<<"Error: ", e>>)>>]
on_raise(io) == IF io = "interrupt" THEN on_interrupt ELSE on_exception("OSError")

\* Mutant of loop_body: `exit` re-loops like the other control words
\* (continue instead of break).
loop_body_exit_continue(line, h, io) ==
    LET pass == [stop |-> FALSE, history |-> h, execArg |-> <<>>,
                 result |-> <<>>, out |-> <<>>, err |-> <<>>]
        raised == [pass EXCEPT !.out = on_raise(io).out,
                               !.err = on_raise(io).err]
    IN IF line = <<>> THEN pass
       ELSE IF line = <<"exit">> THEN pass
       ELSE IF line = <<"help">>
       THEN IF io = "ok" THEN [pass EXCEPT !.out = show_help] ELSE raised
       ELSE IF line = <<"history">>
       THEN IF io = "ok" THEN [pass EXCEPT !.out = show_history(h)] ELSE raised
       ELSE LET r == execute(line)
            IN IF io = "ok"
               THEN [pass EXCEPT !.history = Append(h, line),
                                 !.execArg = line, !.result = r,
                                 !.out = <<Text(r)>>]
               ELSE [raised EXCEPT !.execArg = line, !.result = r]

\* Mutant of loop_body: the line is appended to history before it is
\* evaluated, so a failing print no longer skips the append.
loop_body_append_first(line, h, io) ==
    LET pass == [stop |-> FALSE, history |-> h, execArg |-> <<>>,
                 result |-> <<>>, out |-> <<>>, err |-> <<>>]
        raised == [pass EXCEPT !.out = on_raise(io).out,
                               !.err = on_raise(io).err]
    IN IF line = <<>> THEN pass
       ELSE IF line = <<"exit">> THEN [pass EXCEPT !.stop = TRUE]
       ELSE IF line = <<"help">>
       THEN IF io = "ok" THEN [pass EXCEPT !.out = show_help] ELSE raised
       ELSE IF line = <<"history">>
       THEN IF io = "ok" THEN [pass EXCEPT !.out = show_history(h)] ELSE raised
       ELSE LET r == execute(line)
            IN IF io = "ok"
               THEN [pass EXCEPT !.history = Append(h, line),
                                 !.execArg = line, !.result = r,
                                 !.out = <<Text(r)>>]
               ELSE [raised EXCEPT !.history = Append(h, line),
                                   !.execArg = line, !.result = r]

\* Mutant of loop_body: the try statement encloses the input() call only,
\* so an exception raised while the line is evaluated leaves run().
loop_body_try_input_only(line, h, io) ==
    LET pass == [stop |-> FALSE, history |-> h, execArg |-> <<>>,
                 result |-> <<>>, out |-> <<>>, err |-> <<>>]
        raised == [pass EXCEPT !.stop = TRUE]
    IN IF line = <<>> THEN pass
       ELSE IF line = <<"exit">> THEN [pass EXCEPT !.stop = TRUE]
       ELSE IF line = <<"help">>
       THEN IF io = "ok" THEN [pass EXCEPT !.out = show_help] ELSE raised
       ELSE IF line = <<"history">>
       THEN IF io = "ok" THEN [pass EXCEPT !.out = show_history(h)] ELSE raised
       ELSE LET r == execute(line)
            IN IF io = "ok"
               THEN [pass EXCEPT !.history = Append(h, line),
                                 !.execArg = line, !.result = r,
                                 !.out = <<Text(r)>>]
               ELSE [raised EXCEPT !.execArg = line, !.result = r]

\* Mutant of loop_body: the control words are matched against the first
\* token of the line instead of the whole line.
loop_body_first_token(line, h, io) ==
    LET pass == [stop |-> FALSE, history |-> h, execArg |-> <<>>,
                 result |-> <<>>, out |-> <<>>, err |-> <<>>]
        raised == [pass EXCEPT !.out = on_raise(io).out,
                               !.err = on_raise(io).err]
    IN IF line = <<>> THEN pass
       ELSE IF Head(line) = "exit" THEN [pass EXCEPT !.stop = TRUE]
       ELSE IF Head(line) = "help"
       THEN IF io = "ok" THEN [pass EXCEPT !.out = show_help] ELSE raised
       ELSE IF Head(line) = "history"
       THEN IF io = "ok" THEN [pass EXCEPT !.out = show_history(h)] ELSE raised
       ELSE LET r == execute(line)
            IN IF io = "ok"
               THEN [pass EXCEPT !.history = Append(h, line),
                                 !.execArg = line, !.result = r,
                                 !.out = <<Text(r)>>]
               ELSE [raised EXCEPT !.execArg = line, !.result = r]

\* One pass of the loop body for the stripped line `line`, with history h;
\* a failing print is the first of the pass.  stop: the loop ends (break).
loop_body(line, h, io) ==
    LET pass == [stop |-> FALSE, history |-> h, execArg |-> <<>>,
                 result |-> <<>>, out |-> <<>>, err |-> <<>>]
        raised == [pass EXCEPT !.out = on_raise(io).out,
                               !.err = on_raise(io).err]
    IN IF line = <<>> THEN pass
       ELSE IF line = <<"exit">> THEN [pass EXCEPT !.stop = TRUE]
       ELSE IF line = <<"help">>
       THEN IF io = "ok" THEN [pass EXCEPT !.out = show_help] ELSE raised
       ELSE IF line = <<"history">>
       THEN IF io = "ok" THEN [pass EXCEPT !.out = show_history(h)] ELSE raised
       ELSE LET r == execute(line)
            IN IF io = "ok"
               THEN [pass EXCEPT !.history = Append(h, line),
                                 !.execArg = line, !.result = r,
                                 !.out = <<Text(r)>>]
               ELSE [raised EXCEPT !.execArg = line, !.result = r]

\* Lines whose pass prints inside the try block, so that a print can fail.
Prints(line, h) ==
    /\ line # <<>>
    /\ line # <<"exit">>
    /\ line = <<"history">> => h # <<>>

\* input() returns `raw`, and the loop body runs to the next prompt.
ReadLine ==
    \E raw \in Lines, io \in IoOutcomes :
        LET line == strip(raw)
            b == loop_body(line, history, io)
        IN /\ replState = "Running"
           /\ prompts <= MaxReads
           /\ io # "ok" => Prints(line, history)
           /\ lastInput' = Input(prompts, "line", raw, io)
           /\ readLog' = Append(readLog, [line |-> line, ok |-> io = "ok"])
           /\ replState' = IF b.stop THEN "Stopped" ELSE "Running"
           /\ prompts' = IF b.stop THEN prompts ELSE prompts + 1
           /\ history' = b.history
           /\ execArg' = b.execArg
           /\ result' = b.result
           /\ replOut' = b.out
           /\ replErr' = b.err
           /\ UNCHANGED mvars

\* input() raises EOFError: no more lines.  EOFError is an Exception.
ReadEOF ==
    /\ replState = "Running"
    /\ prompts <= MaxReads
    /\ lastInput' = Input(prompts, "eof", <<>>, "ok")
    /\ replState' = "Running"
    /\ prompts' = prompts + 1
    /\ execArg' = <<>>
    /\ result' = <<>>
    /\ replOut' = on_exception("EOF when reading a line").out
    /\ replErr' = on_exception("EOF when reading a line").err
    /\ UNCHANGED <<history, readLog>>
    /\ UNCHANGED mvars

\* Mutant of ReadInterrupt: KeyboardInterrupt is not caught and ends run().
ReadInterrupt_uncaught ==
    /\ replState = "Running"
    /\ prompts <= MaxReads
    /\ lastInput' = Input(prompts, "interrupt", <<>>, "ok")
    /\ replState' = "Stopped"
    /\ prompts' = prompts
    /\ execArg' = <<>>
    /\ result' = <<>>
    /\ replOut' = <<>>
    /\ replErr' = <<>>
    /\ UNCHANGED <<history, readLog>>
    /\ UNCHANGED mvars

\* input() raises KeyboardInterrupt: Ctrl-C at the prompt.
ReadInterrupt ==
    /\ replState = "Running"
    /\ prompts <= MaxReads
    /\ lastInput' = Input(prompts, "interrupt", <<>>, "ok")
    /\ replState' = "Running"
    /\ prompts' = prompts + 1
    /\ execArg' = <<>>
    /\ result' = <<>>
    /\ replOut' = on_interrupt.out
    /\ replErr' = on_interrupt.err
    /\ UNCHANGED <<history, readLog>>
    /\ UNCHANGED mvars

NextREPL ==
    \/ Execute
    \/ Run
    \/ ReadLine
    \/ ReadEOF
    \/ ReadInterrupt

\* ------------------------------------------- a manager beside a session
\* A process that holds a PluginManager and a FaboriteREPL: commands are
\* registered on the manager before and during the session.
JointRegisterCommand ==
    /\ Len(calls) < MaxJointCalls
    /\ RegisterCommand

JointReadLine ==
    /\ prompts <= MaxJointReads
    /\ ReadLine

JointReadEOF ==
    /\ prompts <= MaxJointReads
    /\ ReadEOF

JointReadInterrupt ==
    /\ prompts <= MaxJointReads
    /\ ReadInterrupt

NextJoint ==
    \/ JointRegisterCommand
    \/ Run
    \/ JointReadLine
    \/ JointReadEOF
    \/ JointReadInterrupt

\* -------------------------------------------------------- specifications
Init == InitManager /\ InitREPL

\* A PluginManager and the operations called on it.
SpecManager == Init /\ [][NextManager]_vars

\* A FaboriteREPL session.
SpecREPL == Init /\ [][NextREPL]_vars

\* A FaboriteREPL session in a process whose PluginManager gets commands.
SpecJoint == Init /\ [][NextJoint]_vars

\* ================================================================ claims
Range(q) == {q[i] : i \in DOMAIN q}
Reverse(q) == [i \in DOMAIN q |-> q[Len(q) + 1 - i]]
IsPrefix(q, r) == Len(q) <= Len(r) /\ SubSeq(r, 1, Len(q)) = q

\* ---------------------------------------------------------------- C1
\* C1 (as claimed): once the prompt read reports end-of-input, run() has
\* reached Stopped and no further prompt has been issued.
C1_EofStops ==
    lastInput.kind = "eof" =>
        /\ replState = "Stopped"
        /\ prompts = lastInput.n

\* ---------------------------------------------------------------- C2
\* A unit whose source cannot be compiled, and a unit that loads and whose
\* register returns.
Malformed(stem) == Unit(stem).loadExc = "SyntaxError"
WellFormed(stem) ==
    /\ Unit(stem).loadExc = "none"
    /\ Unit(stem).hasRegister
    /\ Unit(stem).regExc = "none"
Fails(stem) == Unit(stem).loadExc # "none" \/ Unit(stem).regExc # "none"

\* The exception a failing unit raises inside the try block.
FailureOf(stem) ==
    IF Unit(stem).loadExc # "none" THEN Unit(stem).loadExc ELSE Unit(stem).regExc

\* The stems of the units the last load_plugins reported as failed, in
\* report order, and of those it reported as loaded.
ReportedFailed ==
    [i \in DOMAIN stderr |-> stderr[i][2]]
ReportedLoaded ==
    {stdout[i][2] : i \in {j \in DOMAIN stdout :
                              stdout[j][1] = "Loaded plugin: "}}

\* What C2 promises of a finished load_plugins: it returned, every
\* discovered unit was attempted, exactly the failing units were reported,
\* in order and by stem, and every well-formed unit was loaded.
LoadIsolated ==
    /\ outcome = Return("None", <<>>)
    /\ attempted = lastOp.order
    /\ ReportedFailed = SelectSeq(lastOp.order, Fails)
    /\ \A i \in DOMAIN stderr : stderr[i][1] = "Failed to load plugin "
    /\ \A stem \in Range(lastOp.order) :
          WellFormed(stem) =>
              /\ stem \in ReportedLoaded
              /\ \A c \in Range(Unit(stem).regCalls) : HasName(plugins, c.name)

\* C2 (as claimed): whatever units are discovered and whichever of them
\* fail, load_plugins attempts every unit, returns normally and reports
\* each failing unit with its stem; no failure keeps a later unit from
\* being loaded.
C2_LoadIsolatesEveryFailure ==
    lastOp.op = "load" => LoadIsolated

\* C2 (amended): the same, for units whose failure is an exception derived
\* from Exception (not SystemExit, KeyboardInterrupt or GeneratorExit).
C2_LoadIsolatesExceptions ==
    (/\ lastOp.op = "load"
     /\ \A stem \in Range(lastOp.order) :
           Fails(stem) => IsException(FailureOf(stem)))
    => LoadIsolated

\* A scan of two units, the first failing inside register, the second
\* well-formed and loaded after it.
C2_Witness ==
    /\ lastOp.op = "load"
    /\ Len(lastOp.order) = 2
    /\ Unit(lastOp.order[1]).regExc = "RuntimeError"
    /\ WellFormed(lastOp.order[2])
    /\ ReportedFailed = <<lastOp.order[1]>>
    /\ lastOp.order[2] \in ReportedLoaded
    /\ outcome = Return("None", <<>>)

\* ---------------------------------------------------------------- C3
\* A discovery of exactly one malformed and one well-formed unit.
MalformedAndWellFormed(order) ==
    /\ Len(order) = 2
    /\ \/ Malformed(order[1]) /\ WellFormed(order[2])
       \/ WellFormed(order[1]) /\ Malformed(order[2])
TheWellFormed(order) == IF WellFormed(order[1]) THEN order[1] ELSE order[2]
TheMalformed(order) == IF Malformed(order[1]) THEN order[1] ELSE order[2]

\* C3: a load_plugins over one malformed and one well-formed unit ends with
\* the well-formed unit's commands bound to its handlers and exactly one
\* failure reported (the malformed unit's), and the registry and the
\* failure count are those the other discovery order gives from the same
\* starting registry.
C3_OneBadOneGood ==
    [][(lastOp'.op = "load" /\ MalformedAndWellFormed(lastOp'.order)) =>
         LET other == load_plugins(Reverse(lastOp'.order),
                                   LoadStart(plugins, calls))
         IN /\ \A c \in Range(Unit(TheWellFormed(lastOp'.order)).regCalls) :
                  /\ HasName(plugins', c.name)
                  /\ Lookup(plugins', c.name) = c.handler
            /\ Len(stderr') = 1
            /\ stderr'[1][2] = TheMalformed(lastOp'.order)
            /\ plugins' = other.plugins
            /\ Len(other.stderr) = Len(stderr')]_vars

\* The malformed unit was discovered first, and the well-formed unit's
\* command is in the registry all the same.
C3_Witness ==
    /\ lastOp.op = "load"
    /\ MalformedAndWellFormed(lastOp.order)
    /\ Malformed(lastOp.order[1])
    /\ Len(stderr) = 1
    /\ \A c \in Range(Unit(lastOp.order[2]).regCalls) :
          HasName(plugins, c.name) /\ Lookup(plugins, c.name) = c.handler

\* ---------------------------------------------------------------- C4
CallNames == [i \in DOMAIN calls |-> calls[i].name]
DistinctNames == \A i, j \in DOMAIN calls : i # j => calls[i].name # calls[j].name

\* The last operation was an execute_command whose arguments bind to its
\* parameters (no keyword argument named like a parameter).
Executed == lastOp.op = "execute" /\ Keys(lastOp.kwargs) \cap ParamNames = {}

\* C4: while the names registered so far are pairwise distinct,
\* list_plugins returns exactly those names in call order, and
\* execute_command on each of them invokes the handler registered under it.
C4_DistinctNamesListedInOrder ==
    DistinctNames =>
        /\ list_plugins(plugins) = CallNames
        /\ lastOp.op = "list" => outcome = Return("list", CallNames)
        /\ \A i \in DOMAIN calls :
              (Executed /\ lastOp.name = calls[i].name) =>
                  /\ Len(invoked) = 1
                  /\ invoked[1].handler = calls[i].handler

\* Two names registered with different handlers, and execute_command on the
\* second invoking the second's handler.
C4_Witness ==
    /\ DistinctNames
    /\ Len(calls) = 2
    /\ calls[1].handler # calls[2].handler
    /\ Executed
    /\ lastOp.name = calls[2].name
    /\ Len(invoked) = 1
    /\ invoked[1].handler = calls[2].handler
    /\ list_plugins(plugins) = CallNames

\* ---------------------------------------------------------------- C5
\* The most recent register_command call for `name`.
LatestCall(name) ==
    calls[CHOOSE i \in DOMAIN calls :
            /\ calls[i].name = name
            /\ \A j \in DOMAIN calls : calls[j].name = name => j <= i]
Registered(name) == \E i \in DOMAIN calls : calls[i].name = name

\* Each registered name is listed exactly once, and execute_command(name)
\* invokes the handler of the most recent register_command call for it.
UniqueAndLatest ==
    /\ \A name \in Names :
          Cardinality({i \in DOMAIN plugins : plugins[i].name = name})
              = IF Registered(name) THEN 1 ELSE 0
    /\ (Executed /\ Registered(lastOp.name)) =>
          /\ Len(invoked) = 1
          /\ invoked[1].handler = LatestCall(lastOp.name).handler

\* Handlers that a re-registration of their name replaced by another one.
ReplacedHandlers ==
    {calls[i].handler : i \in
        {k \in DOMAIN calls :
            \E j \in DOMAIN calls :
                /\ j > k
                /\ calls[j].name = calls[k].name
                /\ calls[j].handler # calls[k].handler}}

\* C5 (as claimed): names are unique, execute_command(name) invokes the most
\* recently registered handler of the name, and a handler that a
\* re-registration replaced is not invoked by any later execute_command.
C5_ReplacedHandlerNeverInvoked ==
    /\ UniqueAndLatest
    /\ \A k \in DOMAIN invoked : invoked[k].handler \notin ReplacedHandlers

\* C5 (amended): names are unique, execute_command(name) invokes the most
\* recently registered handler of the name, and a handler that a
\* re-registration of `name` replaced is not invoked by a later
\* execute_command(name) unless the latest registration of `name` passed that
\* handler again.
C5_LatestRegistrationWins ==
    /\ UniqueAndLatest
    /\ \A k \in DOMAIN invoked, i \in DOMAIN calls :
          (/\ lastOp.op = "execute"
           /\ calls[i].name = lastOp.name
           /\ calls[i].handler # LatestCall(lastOp.name).handler)
          => invoked[k].handler # calls[i].handler

\* A name registered twice with different handlers, then executed: the
\* second handler runs.
C5_Witness ==
    /\ Executed
    /\ Len(invoked) = 1
    /\ \E i, j \in DOMAIN calls :
          /\ i < j
          /\ calls[i].name = lastOp.name
          /\ calls[j].name = lastOp.name
          /\ calls[i].handler # calls[j].handler
          /\ calls[j] = LatestCall(lastOp.name)
          /\ invoked[1].handler = calls[j].handler

\* ---------------------------------------------------------------- C6
\* C6: execute_command on a name that is not in the registry raises the
\* unknown-command error naming it, invokes no handler and leaves the
\* registry as it was.
C6_UnknownCommandRaises ==
    [][(/\ lastOp'.op = "execute"
        /\ Keys(lastOp'.kwargs) \cap ParamNames = {}
        /\ ~HasName(plugins, lastOp'.name))
       => /\ outcome' = Raise("ValueError", <<"Unknown command: ", lastOp'.name>>)
          /\ invoked' = <<>>
          /\ plugins' = plugins]_vars

\* execute_command on a missing name while another name is registered.
C6_Witness ==
    /\ Executed
    /\ plugins # <<>>
    /\ ~HasName(plugins, lastOp.name)
    /\ outcome = Raise("ValueError", <<"Unknown command: ", lastOp.name>>)
    /\ invoked = <<>>

\* ---------------------------------------------------------------- C7
\* C7 (as claimed): execute_command on a registered name invokes its
\* handler exactly once with exactly the positional and keyword arguments
\* given, and returns or raises exactly what the handler does.
C7_ExecuteForwardsArguments ==
    (lastOp.op = "execute" /\ HasName(plugins, lastOp.name)) =>
        /\ Len(invoked) = 1
        /\ invoked[1].handler = Lookup(plugins, lastOp.name)
        /\ invoked[1].args = lastOp.args
        /\ invoked[1].kwargs = lastOp.kwargs
        /\ outcome = invoked[1].does

\* ---------------------------------------------------------------- C8
\* The step answers a prompt with a line that is `exit` once stripped.
ReadExit ==
    /\ lastInput'.n # lastInput.n
    /\ lastInput'.kind = "line"
    /\ strip(lastInput'.raw) = <<"exit">>

\* No line was read after an `exit`: `exit` is the last line read, it
\* answered the last prompt issued, and the session is Stopped.
NothingAfterExit ==
    \A i \in DOMAIN readLog :
        readLog[i].line = <<"exit">> =>
            /\ i = Len(readLog)
            /\ replState = "Stopped"
            /\ lastInput.kind = "line"
            /\ strip(lastInput.raw) = <<"exit">>
            /\ lastInput.n = prompts

\* C8: reading a line that equals `exit` once stripped moves the session
\* from Running to Stopped without issuing a prompt, dispatching the line or
\* changing history, and nothing is read after it.
C8_ExitStops ==
    /\ [][ReadExit =>
            /\ replState = "Running"
            /\ replState' = "Stopped"
            /\ prompts' = prompts
            /\ history' = history
            /\ execArg' = <<>>
            /\ replOut' = <<>>
            /\ replErr' = <<>>]_vars
    /\ []NothingAfterExit

\* The session stopped on ` exit ` after a command was recorded.
C8_Witness ==
    /\ replState = "Stopped"
    /\ lastInput.raw = <<" ", "exit", " ">>
    /\ history # <<>>
    /\ <<"exit">> \notin Range(history)

\* ---------------------------------------------------------------- C9
IsControl(line) == line \in {<<"exit">>, <<"help">>, <<"history">>}
IsCommandEntry(e) == e.line # <<>> /\ ~IsControl(e.line)
IsCompletedEntry(e) == IsCommandEntry(e) /\ e.ok
LinesOf(log) == [i \in DOMAIN log |-> log[i].line]

\* C9 (as claimed): history is, in input order, exactly the stripped lines
\* read so far that are non-empty and none of exit, help, history.
C9_HistoryIsEveryCommandRead ==
    history = LinesOf(SelectSeq(readLog, IsCommandEntry))

\* C9 (amended): history is, in input order, exactly the stripped lines read
\* so far that are non-empty, none of exit, help, history, and whose
\* evaluation (dispatch and print of the result) completed without raising;
\* empty lines, help and history add nothing, unrecognized commands are
\* recorded, and each history is a prefix of every later one.
C9_HistoryIsEveryCompletedCommand ==
    /\ [](history = LinesOf(SelectSeq(readLog, IsCompletedEntry)))
    /\ [][IsPrefix(history, history')]_vars

\* An unrecognized command was recorded, a command whose print failed was
\* not, and help was not.
C9_Witness ==
    /\ Len(readLog) = 3
    /\ history = <<<<"frob", " ", "x", " ", "y">>>>
    /\ \E i \in DOMAIN readLog : IsCommandEntry(readLog[i]) /\ ~readLog[i].ok
    /\ \E i \in DOMAIN readLog : readLog[i].line = <<"help">>

\* --------------------------------------------------------------- C10
\* The message C10 gives for a line, from its first two tokens.
Expected(line) ==
    LET toks == split(line)
        first == IF toks = <<>> THEN "" ELSE toks[1]
        second(default) == IF Len(toks) >= 2 THEN toks[2] ELSE default
    IN CASE first = "sync" ->
              <<"Triggering sync for workspace: ", second("default")>>
         [] first = "list" ->
              <<"Listing tables in workspace: ", second("default")>>
         [] first = "profile" -> <<"Profiling table: ", second("unknown")>>
         [] OTHER -> <<"Unknown command: ", first>>

\* C10: for every non-empty line, execute returns the message of its first
\* token with the second token (or the default) as its argument; tokens
\* after the second do not matter.
C10_DispatchOnFirstToken ==
    execArg # <<>> => result = Expected(execArg)

\* execute on a sync line with three tokens names the second.
C10_Witness ==
    /\ execArg = <<"sync", " ", "ws1", " ", "x">>
    /\ result = <<"Triggering sync for workspace: ", "ws1">>

\* --------------------------------------------------------------- C11
\* The step answers a prompt with a line that is `word` once stripped.
ReadWord(word) ==
    /\ lastInput'.n # lastInput.n
    /\ lastInput'.kind = "line"
    /\ strip(lastInput'.raw) = <<word>>

\* C11: the history command leaves history unchanged and, its prints
\* succeeding, prints one line per recorded entry, in recording order, the
\* i-th carrying the number i and the i-th recorded line.
C11_HistoryListsNumberedFromOne ==
    [][ReadWord("history") =>
         /\ history' = history
         /\ lastInput'.io = "ok" =>
               /\ Len(replOut') = Len(history)
               /\ \A i \in 1..Len(history) :
                     /\ replOut'[i].num = i
                     /\ replOut'[i].text = history[i]
               /\ replErr' = <<>>]_vars

\* `history` after two recorded commands printed two numbered lines.
C11_Witness ==
    /\ lastInput.kind = "line"
    /\ lastInput.raw = <<"history">>
    /\ lastInput.io = "ok"
    /\ Len(history) = 2
    /\ Len(replOut) = 2
    /\ replOut[2] = Numbered(2, history[2])
    /\ history[1] # history[2]

\* --------------------------------------------------------------- C12
\* The step answers a prompt with KeyboardInterrupt.
ReadInterrupted ==
    /\ lastInput'.n # lastInput.n
    /\ lastInput'.kind = "interrupt"

\* C12: an interrupt during the prompt read is caught: the hint is printed,
\* nothing goes to the error stream, the session stays Running with its
\* history, and the next prompt is issued; so it is after every interrupt,
\* whatever answered the prompt before.
C12_InterruptKeepsRunning ==
    [][ReadInterrupted =>
         /\ replState' = "Running"
         /\ history' = history
         /\ prompts' = prompts + 1
         /\ replOut' = <<Text(<<"\nUse 'exit' to quit">>)>>
         /\ replErr' = <<>>]_vars

\* The third prompt in a row was answered by an interrupt, after a recorded
\* command, and the session is still Running.
C12_Witness ==
    /\ lastInput.kind = "interrupt"
    /\ lastInput.n = 3
    /\ Len(readLog) = 1
    /\ Len(history) = 1
    /\ replState = "Running"
    /\ prompts = 4

\* --------------------------------------------------------------- C13
NoRepeats(q) == \A i, j \in DOMAIN q : i # j => q[i] # q[j]

\* C13 (as claimed), for a load_plugins call that follows another one: the
\* later call executes no unit's top-level code and no unit's register
\* that the earlier call executed.
C13_OneAttemptPerRun ==
    [][(lastOp.op = "load" /\ lastOp'.op = "load") =>
         /\ Range(attempted) \cap Range(attempted') = {}
         /\ Range(entered) \cap Range(entered') = {}]_vars

\* C13 (amended): within one load_plugins call no unit's top-level code and
\* no unit's register is executed more than once, only discovered units
\* are executed, in discovery order, and all of them when no exception
\* leaves the call.
C13_OneAttemptPerCall ==
    lastOp.op = "load" =>
        /\ NoRepeats(attempted)
        /\ NoRepeats(entered)
        /\ IsPrefix(attempted, lastOp.order)
        /\ outcome.kind = "return" => attempted = lastOp.order
        /\ entered = SelectSeq(attempted,
               LAMBDA s : Unit(s).loadExc = "none" /\ Unit(s).hasRegister)

\* A load_plugins call that executed two units once each, after an earlier
\* operation had already run the register of the first.
C13_Witness ==
    /\ lastOp.op = "load"
    /\ lastOp.order = <<"good", "noreg">>
    /\ attempted = <<"good", "noreg">>
    /\ entered = <<"good">>
    /\ calls = <<Cmd("a", "h1"), Cmd("a", "h1")>>

\* --------------------------------------------------------------- C14
\* What a session step prints for the line it read, from the line and the
\* history alone.
ExpectedOut(line, h) ==
    IF line = <<>> \/ line = <<"exit">> THEN <<>>
    ELSE IF line = <<"help">> THEN show_help
    ELSE IF line = <<"history">> THEN [i \in DOMAIN h |-> Numbered(i, h[i])]
    ELSE <<Text(Expected(line))>>

\* C14: a session step leaves the registry, its call record and the record
\* of handler invocations as they are, and what the session prints, records
\* and whether it has stopped are given by its inputs alone, whatever the
\* registry holds: the result by the first tokens of the line, the output
\* by the line and the history, the history by the lines read, Stopped by
\* `exit` being the last line read.
C14_SessionIgnoresRegistry ==
    /\ [][rvars' # rvars => UNCHANGED mvars]_vars
    /\ [](/\ invoked = <<>>
          /\ execArg # <<>> => result = Expected(execArg)
          /\ (lastInput.kind = "line" /\ lastInput.io = "ok") =>
                replOut = ExpectedOut(strip(lastInput.raw),
                                      IF execArg = <<>> THEN history
                                      ELSE SubSeq(history, 1, Len(history) - 1))
          /\ history = LinesOf(SelectSeq(readLog, IsCompletedEntry))
          /\ replState = "Stopped" <=>
                (readLog # <<>> /\ readLog[Len(readLog)].line = <<"exit">>))

\* The session read the name of a registered plugin command: it answered
\* that the command is unknown, and no handler was invoked.
C14_Witness ==
    /\ HasName(plugins, "a")
    /\ lastInput.kind = "line"
    /\ lastInput.raw = <<"a">>
    /\ lastInput.io = "ok"
    /\ result = <<"Unknown command: ", "a">>
    /\ replOut = <<Text(<<"Unknown command: ", "a">>)>>
    /\ history = << <<"a">> >>
    /\ invoked = <<>>

\* --------------------------------------------------------------- C15
\* A unit that loads without error and defines no register.
NoRegister(stem) == Unit(stem).loadExc = "none" /\ ~Unit(stem).hasRegister
HasRegisterOrFails(stem) == ~NoRegister(stem)

\* C15: a unit that loads without error and has no register is skipped
\* silently: the load_plugins call that executes it reports it neither as
\* failed nor as loaded, goes on to the next discovered unit, and leaves the
\* registry, the register_command calls, the notices and the failure
\* reports exactly as the same call does without such units.
C15_NoRegisterSkippedSilently ==
    [][lastOp'.op = "load" =>
         LET order == lastOp'.order
         IN \A st \in {load_plugins(SelectSeq(order, HasRegisterOrFails),
                                    LoadStart(plugins, calls))} :
            /\ plugins' = st.plugins
            /\ calls' = st.calls
            /\ stdout' = st.stdout
            /\ stderr' = st.stderr
            /\ entered' = st.entered
            /\ outcome' = IF st.exc = "none" THEN Return("None", <<>>)
                          ELSE Raise(st.exc, <<>>)
            /\ \A i \in DOMAIN attempted' :
                  NoRegister(attempted'[i]) =>
                     /\ \A j \in DOMAIN stderr' : stderr'[j][2] # attempted'[i]
                     /\ \A j \in DOMAIN stdout' : stdout'[j][2] # attempted'[i]
                     /\ i < Len(order) =>
                           /\ Len(attempted') > i
                           /\ attempted'[i + 1] = order[i + 1]]_vars

\* A scan met a unit without register first and loaded the next unit: only
\* the second unit's registration and notice show.
C15_Witness ==
    /\ lastOp.op = "load"
    /\ lastOp.order = <<"noreg", "good">>
    /\ attempted = <<"noreg", "good">>
    /\ entered = <<"good">>
    /\ stderr = <<>>
    /\ stdout = <<<<"Registered command: ", "a">>, <<"Loaded plugin: ", "good">>>>
    /\ plugins = <<Cmd("a", "h1")>>

\* --------------------------------------------------------------- C16
\* The step read a command line whose evaluation raised an Exception.
ReadCommandRaising ==
    /\ lastInput'.n # lastInput.n
    /\ lastInput'.kind = "line"
    /\ lastInput'.io = "error"
    /\ strip(lastInput'.raw) # <<>>
    /\ ~IsControl(strip(lastInput'.raw))

\* C16: an error raised while a command line is evaluated is caught and
\* reported on the error stream, and on no other: the session stays
\* Running, the history recorded before the line is unchanged, and the next
\* prompt is issued.
C16_EvaluationErrorKeepsRunning ==
    [][ReadCommandRaising =>
         /\ replState' = "Running"
         /\ Len(replErr') = 1
         /\ replErr'[1].text[1] = "Error: "
         /\ replOut' = <<>>
         /\ history' = history
         /\ prompts' = prompts + 1]_vars

\* The second command line raised while its result was printed: the error
\* is reported, the first command is still the history, and the third
\* prompt is out.
C16_Witness ==
    /\ lastInput.kind = "line"
    /\ lastInput.io = "error"
    /\ lastInput.n = 2
    /\ execArg = <<"list">>
    /\ replErr # <<>>
    /\ history = << <<"sync", " ", "ws1">> >>
    /\ replState = "Running"
    /\ prompts = 3

\* --------------------------------------------------------------- C17
\* A unit whose register calls register_command and then raises an
\* exception that load_plugins catches.
RegistersThenRaises(stem) ==
    /\ Unit(stem).loadExc = "none"
    /\ Unit(stem).hasRegister
    /\ Unit(stem).regCalls # <<>>
    /\ Unit(stem).regExc # "none"
    /\ IsException(Unit(stem).regExc)

\* Unit attempted[i] of the last load_plugins registered `name` and no unit
\* attempted after it did.
LastToRegister(i, name) ==
    /\ \E k \in DOMAIN Unit(attempted[i]).regCalls :
          Unit(attempted[i]).regCalls[k].name = name
    /\ \A j \in DOMAIN attempted :
          j > i => \A k \in DOMAIN Unit(attempted[j]).regCalls :
                      Unit(attempted[j]).regCalls[k].name # name

\* C17: after a load_plugins call that executed a unit whose register
\* registered names and then raised, those names are bound in the registry (to the unit's handler, unless a
\* unit loaded after it registered the name again), and the unit is
\* reported as a load failure and not as loaded.
C17_FailedRegisterNotRolledBack ==
    lastOp.op = "load" =>
        \A i \in DOMAIN attempted :
            RegistersThenRaises(attempted[i]) =>
                LET cmds == Unit(attempted[i]).regCalls
                IN /\ \A k \in DOMAIN cmds :
                         /\ HasName(plugins, cmds[k].name)
                         /\ \E c \in DOMAIN calls : calls[c] = cmds[k]
                         /\ (/\ LastToRegister(i, cmds[k].name)
                             /\ \A m \in DOMAIN cmds :
                                   (m > k) => cmds[m].name # cmds[k].name)
                               => Lookup(plugins, cmds[k].name)
                                     = cmds[k].handler
                   /\ attempted[i] \in Range(ReportedFailed)
                   /\ attempted[i] \notin ReportedLoaded
                   /\ attempted[i] \in Range(entered)

\* load_plugins returned after the only unit's register had registered b
\* and raised: b is bound, the unit is reported as failed.
C17_Witness ==
    /\ lastOp.op = "load"
    /\ lastOp.order = <<"regfail">>
    /\ outcome = Return("None", <<>>)
    /\ plugins = <<Cmd("b", "h1")>>
    /\ stdout = <<<<"Registered command: ", "b">>>>
    /\ stderr = <<<<"Failed to load plugin ", "regfail", ": ", "RuntimeError">>>>

\* --------------------------------------------------------------- C18
ControlWords == {"exit", "help", "history"}

\* The step read a line that is a control word followed by further tokens.
ReadControlWordAndMore ==
    /\ lastInput'.n # lastInput.n
    /\ lastInput'.kind = "line"
    /\ Len(split(lastInput'.raw)) >= 2
    /\ split(lastInput'.raw)[1] \in ControlWords

\* Such a line is not taken for the control word: the session stays
\* Running and issues the next prompt, neither the help text nor the
\* history listing is printed, and the line is dispatched by execute, which
\* answers that its first token is an unknown command.
DispatchedAsUnknown ==
    /\ replState' = "Running"
    /\ prompts' = prompts + 1
    /\ execArg' = strip(lastInput'.raw)
    /\ result' = <<"Unknown command: ", split(lastInput'.raw)[1]>>
    /\ replOut' \in {<<>>, <<Text(result')>>, on_interrupt.out}

\* C18 (as claimed): a control word followed by further tokens is
\* dispatched as an unknown command and is appended to history.
C18_ControlWordAndMoreRecorded ==
    [][ReadControlWordAndMore =>
         /\ DispatchedAsUnknown
         /\ history' = Append(history, strip(lastInput'.raw))]_vars

\* C18 (amended): a control word followed by further tokens is dispatched
\* as an unknown command; it is appended to history when its answer has
\* been printed, and left out, history unchanged, when the evaluation
\* raised.
C18_ControlWordAndMoreIsACommand ==
    [][ReadControlWordAndMore =>
         /\ DispatchedAsUnknown
         /\ lastInput'.io = "ok" =>
               /\ history' = Append(history, strip(lastInput'.raw))
               /\ replOut' = <<Text(result')>>
               /\ replErr' = <<>>
         /\ lastInput'.io # "ok" => history' = history]_vars

\* `exit now`, `help me` and `history 2` were read in turn: all three are
\* the history and the session is Running.
C18_Witness ==
    /\ history = <<<<"exit", " ", "now">>, <<"help", " ", "me">>,
                   <<"history", " ", "2">>>>
    /\ result = <<"Unknown command: ", "history">>
    /\ lastInput.n = 3
    /\ replState = "Running"

\* --------------------------------------------------------------- C19
\* The handler a unit's register leaves bound to `name`, and whether it
\* binds the name at all.
RegistersName(stem, name) ==
    \E k \in DOMAIN Unit(stem).regCalls : Unit(stem).regCalls[k].name = name
HandlerOf(stem, name) ==
    LET cmds == Unit(stem).regCalls
        last == CHOOSE k \in DOMAIN cmds :
                   /\ cmds[k].name = name
                   /\ \A m \in DOMAIN cmds : cmds[m].name = name => m <= k
    IN cmds[last].handler
NamesOf(p) == {p[i].name : i \in DOMAIN p}

\* C19: when load_plugins loads two well-formed units that register the
\* same name, the name ends bound to the handler of the unit discovered
\* later; the same scan in the other discovery order binds it to the other
\* unit's handler, and registers the same set of names.
C19_LaterUnitWinsSharedName ==
    [][(/\ lastOp'.op = "load"
        /\ Len(lastOp'.order) = 2
        /\ \A i \in 1..2 : WellFormed(lastOp'.order[i])) =>
         LET first == lastOp'.order[1]
             second == lastOp'.order[2]
             other == load_plugins(<<second, first>>,
                                   LoadStart(plugins, calls))
         IN /\ \A name \in Names :
                  (RegistersName(first, name) /\ RegistersName(second, name))
                  => /\ Lookup(plugins', name) = HandlerOf(second, name)
                     /\ Lookup(other.plugins, name) = HandlerOf(first, name)
            /\ NamesOf(plugins') = NamesOf(other.plugins)]_vars

\* Two units that both register a were loaded, good before dup: a is bound
\* to dup's handler, although good registered it first.
C19_Witness ==
    /\ lastOp.op = "load"
    /\ lastOp.order = <<"good", "dup">>
    /\ attempted = <<"good", "dup">>
    /\ stderr = <<>>
    /\ HandlerOf("good", "a") # HandlerOf("dup", "a")
    /\ plugins = <<Cmd("a", "h2"), Cmd("b", "h2")>>

\* --------------------------------------------------------------- C20
\* The elements of q in order of first occurrence.
RECURSIVE FirstOccurrences(_)
FirstOccurrences(q) ==
    IF q = <<>> THEN <<>>
    ELSE LET r == FirstOccurrences(SubSeq(q, 1, Len(q) - 1))
         IN IF q[Len(q)] \in Range(r) THEN r ELSE Append(r, q[Len(q)])

\* C20: list_plugins gives the registered names in the order of their first
\* registration: registering a name again replaces its handler and leaves
\* its place in the listing.
C20_ListedInFirstRegistrationOrder ==
    /\ list_plugins(plugins) = FirstOccurrences(CallNames)
    /\ lastOp.op = "list" => outcome = Return("list", FirstOccurrences(CallNames))

\* a, then b, then a again with another handler: list_plugins returned a
\* before b, and a has the new handler.
C20_Witness ==
    /\ calls = <<Cmd("a", "h1"), Cmd("b", "h1"), Cmd("a", "h2")>>
    /\ lastOp.op = "list"
    /\ outcome = Return("list", <<"a", "b">>)
    /\ Lookup(plugins, "a") = "h2"

====
